---- MODULE Spec2Model ----
(***************************************************************************)
(* A model of src/capture.c: the V4L2 memory-mapped capture core.          *)
(*                                                                         *)
(* The camera_t object, the kernel driver it talks to, the process's       *)
(* mapped regions and the diagnostics sink are the state.  Every public    *)
(* function of capture.c is one action; the static helpers are operators   *)
(* that thread a "world" record w = [cam, drv, mapped, sink, trace, ub]    *)
(* through the statements of the C code in order, early returns included.  *)
(***************************************************************************)
EXTENDS Integers, Sequences, FiniteSets, TLC

(***************************************************************************)
(* Bounds of the model.                                                    *)
(***************************************************************************)
\* the largest buffer count the driver grants to VIDIOC_REQBUFS
MaxGrant == 2
\* the largest buffer length (bytes) the driver reports in VIDIOC_QUERYBUF
MaxLen == 2
\* bytes range over 0..MaxByte
MaxByte == 1
\* the number of ids in the user-control range
MaxCtrls == 2
\* the largest maximum a menu control reports
MaxMenu == 2

(***************************************************************************)
(* Program constants.                                                      *)
(***************************************************************************)
\* xioctl: for (int i = 0; i < 100; i++)
MAX_ATTEMPTS == 100
\* camera_buffer_prepare: req.count = 4
REQ_COUNT == 4
\* camera_close: for (int i = 0; i < 10; i++)
CLOSE_ATTEMPTS == 10
\* v4l2_fourcc('Y','U','Y','V'), the packed 4:2:2 format
V4L2_PIX_FMT_YUYV == 1448695129
\* the first id of the user-control class
V4L2_CID_USER_BASE == 9963776

NULL == 0
MAP_FAILED == 0 - 1
Byte == 0 .. MaxByte
\* the addresses mmap can hand out
Addrs == 1 .. (2 * MaxGrant)
\* frame sizes the driver knows
Sizes == { <<320, 240>>, <<640, 480>> }

Zeros(n) == [i \in 1 .. n |-> 0]
Max(a, b) == IF a > b THEN a ELSE b
\* the frames a driver may deliver into a buffer of n bytes: every length
\* up to n, the bytes a ramp from the lowest or the highest byte value, so
\* that no two neighbouring bytes of a frame are equal
Frames(n) ==
  { [j \in 1 .. k |-> (b + j) % (MaxByte + 1)] : k \in 0 .. n, b \in {0, MaxByte} }

VARIABLES
  cam,      \* the camera_t object (fd, initialized, width, height,
            \* buffer_count, buffers, head)
  drv,      \* the kernel driver's side of the device
  mapped,   \* the regions mapped in the process: records [addr, index]
  sink,     \* what the diagnostics sink received during the last operation
  trace,    \* the system calls the last operation issued, in order
  op,       \* the last public operation called, "idle" once the caller
            \* has taken its result
  args,     \* the argument it was called with
  ret,      \* what it returned
  origin,   \* the call that mapped the buffer set the device holds
  torn,     \* the origin of the buffer set the last operation released
  state,    \* the state of the spec's state machine (section 4.3)
  ub,       \* an operation read or wrote memory it does not own
  io,       \* one ioctl-layer call in progress (second specification)
  codec,    \* one format tag on its way through the FormatCodec
  catalog   \* a device's controls and the list enumerated from them

vars == << cam, drv, mapped, sink, trace, op, args, ret, origin, torn,
          state, ub, io, codec, catalog >>

(***************************************************************************)
(* The world threaded through the helpers.                                 *)
(***************************************************************************)
World == [cam |-> cam, drv |-> drv, mapped |-> mapped,
          sink |-> << >>, trace |-> << >>, ub |-> ub]

\* camera->context.log(type, msg, pointer)
Log(w, type, msg) == [w EXCEPT !.sink = Append(@, << type, msg >>)]

\* one system call, recorded with its argument and its result (0 or -1)
Called(w, req, arg, r) ==
  [w EXCEPT !.trace = Append(@, [req |-> req, arg |-> arg, r |-> r])]

\* static bool error(camera, msg)
error(w, msg) == [w |-> Log(w, "ERROR", msg), ret |-> FALSE]

\* static bool failure(camera, msg)
failure(w, msg) == [w |-> Log(w, "FAIL", msg), ret |-> FALSE]

\* the fault injected into an operation: the first call that the
\* environment makes fail, << request, index >>, or NoFault
NoFault == << "none", 0 >>
Injected(f, req, idx) == f = << req, idx >>

(***************************************************************************)
(* The kernel's side of each call: what the driver does when the call is   *)
(* not made to fail.                                                       *)
(***************************************************************************)
\* VIDIOC_STREAMOFF: streaming ends and every queued buffer is dropped
drv_streamoff(d) == [d EXCEPT !.streaming = FALSE, !.queued = {}]

\* VIDIOC_STREAMON
drv_streamon(d) == [d EXCEPT !.streaming = TRUE]

\* VIDIOC_REQBUFS: the driver replaces its buffers by `grant` fresh ones,
\* none of them queued
drv_reqbufs(d, grant) == [d EXCEPT !.nbufs = grant, !.queued = {}]

\* VIDIOC_QBUF of index i is accepted for a buffer the driver has and does
\* not hold already
drv_can_qbuf(d, i) == i < d.nbufs /\ i \notin d.queued
drv_qbuf(d, i) == [d EXCEPT !.queued = @ \cup {i}]

\* VIDIOC_DQBUF hands out a queued buffer the driver has filled, and only
\* while streaming
drv_can_dqbuf(d, k) == d.streaming /\ k \in d.queued
drv_dqbuf(d, k) == [d EXCEPT !.queued = @ \ {k}]

\* VIDIOC_S_FMT: the driver settles on the size `fmt`
drv_s_fmt(d, fmt) == [d EXCEPT !.fmt = fmt]

\* the lowest address no region occupies, MAP_FAILED when there is none
FreeAddr(m) ==
  LET free == { a \in Addrs : \A g \in m : g.addr # a }
  IN  IF free = {} THEN MAP_FAILED
      ELSE CHOOSE a \in free : \A b \in free : a <= b

IsMapped(m, a) == \E g \in m : g.addr = a
\* address a is where buffer k of the driver is mapped
MapsBuffer(m, a, k) == \E g \in m : g.addr = a /\ g.index = k

\* munmap(start, length)
munmap(w, a) ==
  IF IsMapped(w.mapped, a)
    THEN Called([w EXCEPT !.mapped = { g \in @ : g.addr # a }],
                "munmap", << a >>, 0)
    ELSE Called(w, "munmap", << a >>, 0 - 1)

(***************************************************************************)
(* static void free_buffers(camera, count)                                 *)
(***************************************************************************)
\* mutant: the loop stops one buffer short
RECURSIVE free_buffers_loop_short(_, _, _)
free_buffers_loop_short(w, i, count) ==
  IF i + 1 < count
    THEN free_buffers_loop_short(munmap(w, w.cam.buffers[i + 1].start), i + 1, count)
    ELSE w

RECURSIVE free_buffers_loop(_, _, _)
free_buffers_loop(w, i, count) ==
  IF i < count
    THEN free_buffers_loop(munmap(w, w.cam.buffers[i + 1].start), i + 1, count)
    ELSE w

\* mutant: the array is released without unmapping what it points to
free_buffers_leak(w, count) ==
  [w EXCEPT !.cam.buffers = << >>, !.cam.buffer_count = 0]

free_buffers(w, count) ==
  LET w1 == free_buffers_loop(w, 0, count)
  IN  [w1 EXCEPT !.cam.buffers = << >>, !.cam.buffer_count = 0]

(***************************************************************************)
(* static bool camera_init(camera)                                         *)
(* crop: "ok", or which of the two best-effort crop calls fails            *)
(***************************************************************************)
\* mutant: the streaming capability is not checked
camera_init_nostreaming(w, f, crop) ==
  IF Injected(f, "VIDIOC_QUERYCAP", 0)
    THEN error(Called(w, "VIDIOC_QUERYCAP", << >>, 0 - 1), "VIDIOC_QUERYCAP")
  ELSE LET w1 == Called(w, "VIDIOC_QUERYCAP", << >>, 0) IN
  IF "VIDEO_CAPTURE" \notin w.drv.caps THEN failure(w1, "no capture")
  ELSE LET w2 == IF crop = "cropcap"
                   THEN Called(w1, "VIDIOC_CROPCAP", << >>, 0 - 1)
                   ELSE Called(Called(w1, "VIDIOC_CROPCAP", << >>, 0),
                               "VIDIOC_S_CROP", << >>,
                               IF crop = "s_crop" THEN 0 - 1 ELSE 0)
       IN  [w |-> [w2 EXCEPT !.cam.initialized = TRUE], ret |-> TRUE]

camera_init(w, f, crop) ==
  IF Injected(f, "VIDIOC_QUERYCAP", 0)
    THEN error(Called(w, "VIDIOC_QUERYCAP", << >>, 0 - 1), "VIDIOC_QUERYCAP")
  ELSE LET w1 == Called(w, "VIDIOC_QUERYCAP", << >>, 0) IN
  IF "VIDEO_CAPTURE" \notin w.drv.caps THEN failure(w1, "no capture")
  ELSE IF "STREAMING" \notin w.drv.caps THEN failure(w1, "no streaming")
  ELSE LET w2 == IF crop = "cropcap"
                   THEN Called(w1, "VIDIOC_CROPCAP", << >>, 0 - 1)
                   ELSE Called(Called(w1, "VIDIOC_CROPCAP", << >>, 0),
                               "VIDIOC_S_CROP", << >>,
                               IF crop = "s_crop" THEN 0 - 1 ELSE 0)
       IN  [w |-> [w2 EXCEPT !.cam.initialized = TRUE], ret |-> TRUE]

(***************************************************************************)
(* static bool camera_buffer_prepare(camera)                               *)
(* grant, lens: the count and the lengths the driver answers with          *)
(***************************************************************************)
\* mutant: a failing buffer ends the loop without the rollback
RECURSIVE buffer_prepare_loop_norollback(_, _, _, _, _)
buffer_prepare_loop_norollback(w, f, lens, i, buf_max) ==
  IF i >= w.cam.buffer_count
    THEN [w |-> [w EXCEPT !.cam.head.start = Zeros(buf_max)], ret |-> TRUE]
  ELSE IF Injected(f, "VIDIOC_QUERYBUF", i)
    THEN error(Called(w, "VIDIOC_QUERYBUF", << i >>, 0 - 1), "VIDIOC_QUERYBUF")
  ELSE LET length == lens[i + 1]
           w1 == Called(w, "VIDIOC_QUERYBUF", << i >>, 0)
           a  == IF Injected(f, "mmap", i) THEN MAP_FAILED ELSE FreeAddr(w1.mapped)
           w2 == [Called(w1, "mmap", << i, a >>, IF a = MAP_FAILED THEN 0 - 1 ELSE 0)
                    EXCEPT !.cam.buffers[i + 1] = [start |-> a, length |-> length],
                           !.mapped = IF a = MAP_FAILED THEN @
                                      ELSE @ \cup {[addr |-> a, index |-> i]}]
       IN  IF a = MAP_FAILED
             THEN error(w2, "mmap")
             ELSE buffer_prepare_loop_norollback(w2, f, lens, i + 1,
                                                 Max(buf_max, length))

RECURSIVE buffer_prepare_loop(_, _, _, _, _)
buffer_prepare_loop(w, f, lens, i, buf_max) ==
  IF i >= w.cam.buffer_count
    THEN [w |-> [w EXCEPT !.cam.head.start = Zeros(buf_max)], ret |-> TRUE]
  ELSE IF Injected(f, "VIDIOC_QUERYBUF", i)
    THEN error(free_buffers(Called(w, "VIDIOC_QUERYBUF", << i >>, 0 - 1), i),
               "VIDIOC_QUERYBUF")
  ELSE LET length == lens[i + 1]
           w1 == Called(w, "VIDIOC_QUERYBUF", << i >>, 0)
           a  == IF Injected(f, "mmap", i) THEN MAP_FAILED ELSE FreeAddr(w1.mapped)
           w2 == [Called(w1, "mmap", << i, a >>, IF a = MAP_FAILED THEN 0 - 1 ELSE 0)
                    EXCEPT !.cam.buffers[i + 1] = [start |-> a, length |-> length],
                           !.mapped = IF a = MAP_FAILED THEN @
                                      ELSE @ \cup {[addr |-> a, index |-> i]}]
       IN  IF a = MAP_FAILED
             THEN error(free_buffers(w2, i), "mmap")
             ELSE buffer_prepare_loop(w2, f, lens, i + 1, Max(buf_max, length))

camera_buffer_prepare(w, f, grant, lens) ==
  IF Injected(f, "VIDIOC_REQBUFS", 0)
    THEN error(Called(w, "VIDIOC_REQBUFS", << REQ_COUNT >>, 0 - 1), "VIDIOC_REQBUFS")
  ELSE LET w1 == [Called(w, "VIDIOC_REQBUFS", << REQ_COUNT, grant >>, 0)
                    EXCEPT !.drv = drv_reqbufs(@, grant),
                           !.cam.buffer_count = grant,
                           !.cam.buffers = [i \in 1 .. grant |->
                                              [start |-> NULL, length |-> 0]]]
       IN  buffer_prepare_loop(w1, f, lens, 0, 0)

(***************************************************************************)
(* static void camera_buffer_finish(camera)                                *)
(***************************************************************************)
\* mutant: head.length keeps the length of the last frame
camera_buffer_finish_stale(w) ==
  [free_buffers(w, w.cam.buffer_count) EXCEPT !.cam.head.start = << >>]

camera_buffer_finish(w) ==
  [free_buffers(w, w.cam.buffer_count)
     EXCEPT !.cam.head = [length |-> 0, start |-> << >>]]

(***************************************************************************)
(* static bool camera_load_settings(camera)                                *)
(***************************************************************************)
camera_load_settings(w, f) ==
  IF Injected(f, "VIDIOC_G_FMT", 0)
    THEN error(Called(w, "VIDIOC_G_FMT", << >>, 0 - 1), "VIDIOC_G_FMT")
    ELSE [w |-> [Called(w, "VIDIOC_G_FMT", w.drv.fmt, 0)
                   EXCEPT !.cam.width = w.drv.fmt[1],
                          !.cam.height = w.drv.fmt[2]],
          ret |-> TRUE]

\* C's a || b on integers: 1 when either is nonzero, else 0
LogicalOr(a, b) == IF a # 0 \/ b # 0 THEN 1 ELSE 0

\* uint32_t pixformat = config->format || V4L2_PIX_FMT_YUYV;
pixformat_of(config) == LogicalOr(config.format, V4L2_PIX_FMT_YUYV)

(***************************************************************************)
(* static bool camera_set_config(camera, config)                           *)
(* fmt: the size the driver settles on when it accepts VIDIOC_S_FMT        *)
(***************************************************************************)
\* mutant: the frame interval is set when either of its parts is nonzero
camera_set_config_either(w, config, f, fmt) ==
  LET sf == config.width > 0 /\ config.height > 0
      sp == config.interval.numerator # 0 \/ config.interval.denominator # 0
      fmtarg == << config.width, config.height, pixformat_of(config) >>
      parg == << config.interval.numerator, config.interval.denominator >>
      w1 == IF sf THEN [Called(w, "VIDIOC_S_FMT", fmtarg, 0)
                          EXCEPT !.drv = drv_s_fmt(@, fmt)]
                  ELSE w
  IN  IF sf /\ Injected(f, "VIDIOC_S_FMT", 0)
        THEN error(Called(w, "VIDIOC_S_FMT", fmtarg, 0 - 1), "VIDIOC_S_FMT")
      ELSE IF sp /\ Injected(f, "VIDIOC_S_PARM", 0)
        THEN error(Called(w1, "VIDIOC_S_PARM", parg, 0 - 1), "VIDIOC_S_PARM")
      ELSE [w |-> IF sp THEN Called(w1, "VIDIOC_S_PARM", parg, 0) ELSE w1,
            ret |-> TRUE]

camera_set_config(w, config, f, fmt) ==
  LET sf == config.width > 0 /\ config.height > 0
      sp == config.interval.numerator # 0 /\ config.interval.denominator # 0
      fmtarg == << config.width, config.height, pixformat_of(config) >>
      parg == << config.interval.numerator, config.interval.denominator >>
      w1 == IF sf THEN [Called(w, "VIDIOC_S_FMT", fmtarg, 0)
                          EXCEPT !.drv = drv_s_fmt(@, fmt)]
                  ELSE w
  IN  IF sf /\ Injected(f, "VIDIOC_S_FMT", 0)
        THEN error(Called(w, "VIDIOC_S_FMT", fmtarg, 0 - 1), "VIDIOC_S_FMT")
      ELSE IF sp /\ Injected(f, "VIDIOC_S_PARM", 0)
        THEN error(Called(w1, "VIDIOC_S_PARM", parg, 0 - 1), "VIDIOC_S_PARM")
      ELSE [w |-> IF sp THEN Called(w1, "VIDIOC_S_PARM", parg, 0) ELSE w1,
            ret |-> TRUE]

(***************************************************************************)
(* bool camera_stop(camera)                                                *)
(***************************************************************************)
camera_stop(w, f) ==
  IF Injected(f, "VIDIOC_STREAMOFF", 0)
    THEN error(Called(w, "VIDIOC_STREAMOFF", << >>, 0 - 1), "VIDIOC_STREAMOFF")
    ELSE [w |-> [Called(w, "VIDIOC_STREAMOFF", << >>, 0)
                   EXCEPT !.drv = drv_streamoff(@)],
          ret |-> TRUE]

(***************************************************************************)
(* bool camera_config(camera, config)                                      *)
(* e: what the environment answers during this call                        *)
(*    [fail, crop, fmt, grant, lens]                                       *)
(***************************************************************************)
camera_config(w, config, e) ==
  LET s  == IF w.cam.buffer_count > 0 THEN camera_stop(w, e.fail)
                                      ELSE [w |-> w, ret |-> TRUE]
  IN  IF ~s.ret THEN s
  ELSE LET w1 == IF w.cam.buffer_count > 0 THEN camera_buffer_finish(s.w) ELSE s.w
           i  == IF ~w1.cam.initialized THEN camera_init(w1, e.fail, e.crop)
                                        ELSE [w |-> w1, ret |-> TRUE]
  IN  IF ~i.ret THEN i
  ELSE LET c == camera_set_config(i.w, config, e.fail, e.fmt)
  IN  IF ~c.ret THEN c
  ELSE LET l == camera_load_settings(c.w, e.fail)
  IN  IF ~l.ret THEN l
  ELSE camera_buffer_prepare(l.w, e.fail, e.grant, e.lens)

(***************************************************************************)
(* static bool camera_load(camera)                                         *)
(***************************************************************************)
\* mutant: the settings are loaded and buffers prepared whatever the count
camera_load_always(w, e) ==
  LET i == IF ~w.cam.initialized THEN camera_init(w, e.fail, e.crop)
                                 ELSE [w |-> w, ret |-> TRUE]
  IN  IF ~i.ret THEN i
  ELSE LET l == camera_load_settings(i.w, e.fail)
       IN  IF ~l.ret THEN l
           ELSE camera_buffer_prepare(l.w, e.fail, e.grant, e.lens)

camera_load(w, e) ==
  LET i == IF ~w.cam.initialized THEN camera_init(w, e.fail, e.crop)
                                 ELSE [w |-> w, ret |-> TRUE]
  IN  IF ~i.ret THEN i
  ELSE IF i.w.cam.buffer_count = 0
    THEN LET l == camera_load_settings(i.w, e.fail)
         IN  IF ~l.ret THEN l
             ELSE camera_buffer_prepare(l.w, e.fail, e.grant, e.lens)
    ELSE i

(***************************************************************************)
(* bool camera_start(camera)                                               *)
(***************************************************************************)
RECURSIVE start_loop(_, _, _)
start_loop(w, f, i) ==
  IF i >= w.cam.buffer_count THEN [w |-> w, ret |-> TRUE]
  ELSE IF Injected(f, "VIDIOC_QBUF", i) \/ ~drv_can_qbuf(w.drv, i)
    THEN error(Called(w, "VIDIOC_QBUF", << i >>, 0 - 1), "VIDIOC_QBUF")
  ELSE start_loop([Called(w, "VIDIOC_QBUF", << i >>, 0)
                     EXCEPT !.drv = drv_qbuf(@, i)], f, i + 1)

\* mutant: the result of the enqueue loop is not checked
camera_start_unchecked(w, e) ==
  LET l == camera_load(w, e)
  IN  IF ~l.ret THEN l
  ELSE LET q == start_loop(l.w, e.fail, 0)
  IN  IF Injected(e.fail, "VIDIOC_STREAMON", 0)
    THEN error(Called(q.w, "VIDIOC_STREAMON", << >>, 0 - 1), "VIDIOC_STREAMON")
  ELSE [w |-> [Called(q.w, "VIDIOC_STREAMON", << >>, 0)
                 EXCEPT !.drv = drv_streamon(@)],
        ret |-> TRUE]

camera_start(w, e) ==
  LET l == camera_load(w, e)
  IN  IF ~l.ret THEN l
  ELSE LET q == start_loop(l.w, e.fail, 0)
  IN  IF ~q.ret THEN q
  ELSE IF Injected(e.fail, "VIDIOC_STREAMON", 0)
    THEN error(Called(q.w, "VIDIOC_STREAMON", << >>, 0 - 1), "VIDIOC_STREAMON")
  ELSE [w |-> [Called(q.w, "VIDIOC_STREAMON", << >>, 0)
                 EXCEPT !.drv = drv_streamon(@)],
        ret |-> TRUE]

(***************************************************************************)
(* bool camera_close(camera)                                               *)
(* nfail: how many close(fd) attempts fail before one succeeds.  On Linux  *)
(* the descriptor is released by the first close() whatever it returns.    *)
(***************************************************************************)
RECURSIVE close_loop(_, _, _)
close_loop(w, i, nfail) ==
  IF i >= CLOSE_ATTEMPTS THEN w
  ELSE IF i < nfail THEN close_loop(Called(w, "close", << >>, 0 - 1), i + 1, nfail)
  ELSE Called(w, "close", << >>, 0)

\* mutant: the buffers are released only when the stream-off succeeded
camera_close_strict(w, f, nfail) ==
  LET s  == camera_stop(w, f)
      w1 == IF w.cam.buffer_count > 0
              THEN (IF s.ret THEN camera_buffer_finish(s.w) ELSE s.w)
              ELSE w
      w2 == close_loop(w1, 0, nfail)
  IN  [w |-> [w2 EXCEPT !.cam.fd = "closed"], ret |-> TRUE]

camera_close(w, f, nfail) ==
  LET w1 == IF w.cam.buffer_count > 0
              THEN camera_buffer_finish(camera_stop(w, f).w)
              ELSE w
      w2 == close_loop(w1, 0, nfail)
  IN  [w |-> [w2 EXCEPT !.cam.fd = "closed"], ret |-> TRUE]

(***************************************************************************)
(* bool camera_capture(camera)                                             *)
(* k, frame: the buffer the driver has completed and the bytes it wrote    *)
(* at its start (bytesused = Len(frame))                                   *)
(***************************************************************************)
\* memcpy(camera->head.start, camera->buffers[buf.index].start, bytesused):
\* the bytes at address src are the frame when src maps buffer k and the
\* driver has handed buffer k out; any other read, and a write past the end
\* of head.start, is memory the caller does not own
\* mutant: the copy is one byte short
memcpy_head_short(w, src, k, frame) ==
  LET w0 == Called(w, "memcpy", << src, Len(frame) >>, 0)
  IN  IF MapsBuffer(w.mapped, src, k) /\ Len(frame) <= Len(w.cam.head.start)
        THEN [w0 EXCEPT !.cam.head.start =
                          [j \in 1 .. Len(@) |->
                             IF j + 1 <= Len(frame) THEN frame[j] ELSE @[j]]]
        ELSE [w0 EXCEPT !.ub = TRUE]

memcpy_head(w, src, k, frame) ==
  LET w0 == Called(w, "memcpy", << src, Len(frame) >>, 0)
  IN  IF MapsBuffer(w.mapped, src, k) /\ Len(frame) <= Len(w.cam.head.start)
        THEN [w0 EXCEPT !.cam.head.start =
                          [j \in 1 .. Len(@) |->
                             IF j <= Len(frame) THEN frame[j] ELSE @[j]]]
        ELSE [w0 EXCEPT !.ub = TRUE]

\* mutant: a failed dequeue clears the snapshot's length
camera_capture_clear(w, f, k, frame) ==
  IF Injected(f, "VIDIOC_DQBUF", 0) \/ ~drv_can_dqbuf(w.drv, k)
    THEN [w |-> [Called(w, "VIDIOC_DQBUF", << >>, 0 - 1)
                   EXCEPT !.cam.head.length = 0],
          ret |-> FALSE]
  ELSE LET n   == Len(frame)
           w1  == [Called(Called(w, "VIDIOC_DQBUF", << k, n >>, 0),
                          "frame", frame, 0)
                     EXCEPT !.drv = drv_dqbuf(@, k)]
           src == IF k < Len(w1.cam.buffers) THEN w1.cam.buffers[k + 1].start
                                             ELSE NULL
           w2  == [memcpy_head(w1, src, k, frame) EXCEPT !.cam.head.length = n]
       IN  IF Injected(f, "VIDIOC_QBUF", 0) \/ ~drv_can_qbuf(w2.drv, k)
             THEN [w |-> Called(w2, "VIDIOC_QBUF", << k >>, 0 - 1), ret |-> FALSE]
             ELSE [w |-> [Called(w2, "VIDIOC_QBUF", << k >>, 0)
                            EXCEPT !.drv = drv_qbuf(@, k)],
                   ret |-> TRUE]

\* mutant: the snapshot's length is recorded once the re-enqueue succeeded
camera_capture_lazylen(w, f, k, frame) ==
  IF Injected(f, "VIDIOC_DQBUF", 0) \/ ~drv_can_dqbuf(w.drv, k)
    THEN [w |-> Called(w, "VIDIOC_DQBUF", << >>, 0 - 1), ret |-> FALSE]
  ELSE LET n   == Len(frame)
           w1  == [Called(Called(w, "VIDIOC_DQBUF", << k, n >>, 0),
                          "frame", frame, 0)
                     EXCEPT !.drv = drv_dqbuf(@, k)]
           src == IF k < Len(w1.cam.buffers) THEN w1.cam.buffers[k + 1].start
                                             ELSE NULL
           w2  == memcpy_head(w1, src, k, frame)
       IN  IF Injected(f, "VIDIOC_QBUF", 0) \/ ~drv_can_qbuf(w2.drv, k)
             THEN [w |-> Called(w2, "VIDIOC_QBUF", << k >>, 0 - 1), ret |-> FALSE]
             ELSE [w |-> [Called(w2, "VIDIOC_QBUF", << k >>, 0)
                            EXCEPT !.drv = drv_qbuf(@, k),
                                   !.cam.head.length = n],
                   ret |-> TRUE]

\* mutant: the frame is copied after the buffer went back to the driver
camera_capture_late(w, f, k, frame) ==
  IF Injected(f, "VIDIOC_DQBUF", 0) \/ ~drv_can_dqbuf(w.drv, k)
    THEN [w |-> Called(w, "VIDIOC_DQBUF", << >>, 0 - 1), ret |-> FALSE]
  ELSE LET n   == Len(frame)
           w1  == [Called(Called(w, "VIDIOC_DQBUF", << k, n >>, 0),
                          "frame", frame, 0)
                     EXCEPT !.drv = drv_dqbuf(@, k)]
           src == IF k < Len(w1.cam.buffers) THEN w1.cam.buffers[k + 1].start
                                             ELSE NULL
       IN  IF Injected(f, "VIDIOC_QBUF", 0) \/ ~drv_can_qbuf(w1.drv, k)
             THEN [w |-> Called(w1, "VIDIOC_QBUF", << k >>, 0 - 1), ret |-> FALSE]
             ELSE [w |-> [memcpy_head([Called(w1, "VIDIOC_QBUF", << k >>, 0)
                                         EXCEPT !.drv = drv_qbuf(@, k)],
                                      src, k, frame)
                            EXCEPT !.cam.head.length = n],
                   ret |-> TRUE]

camera_capture(w, f, k, frame) ==
  IF Injected(f, "VIDIOC_DQBUF", 0) \/ ~drv_can_dqbuf(w.drv, k)
    THEN [w |-> Called(w, "VIDIOC_DQBUF", << >>, 0 - 1), ret |-> FALSE]
  ELSE LET n   == Len(frame)
           w1  == [Called(Called(w, "VIDIOC_DQBUF", << k, n >>, 0),
                          "frame", frame, 0)
                     EXCEPT !.drv = drv_dqbuf(@, k)]
           src == IF k < Len(w1.cam.buffers) THEN w1.cam.buffers[k + 1].start
                                             ELSE NULL
           w2  == [memcpy_head(w1, src, k, frame) EXCEPT !.cam.head.length = n]
       IN  IF Injected(f, "VIDIOC_QBUF", 0) \/ ~drv_can_qbuf(w2.drv, k)
             THEN [w |-> Called(w2, "VIDIOC_QBUF", << k >>, 0 - 1), ret |-> FALSE]
             ELSE [w |-> [Called(w2, "VIDIOC_QBUF", << k >>, 0)
                            EXCEPT !.drv = drv_qbuf(@, k)],
                   ret |-> TRUE]

(***************************************************************************)
(* The state machine of section 4.3, followed along the return values.     *)
(***************************************************************************)
Issued(t, req, r) == \E j \in 1 .. Len(t) : t[j].req = req /\ t[j].r = r

\* where the device stands when it holds no configuration
Unconfigured(w) == IF w.cam.initialized THEN "Initialized" ELSE "Opened"

\* after camera_config: Configured on success; unchanged when the call
\* stopped at the stream-off, before any teardown; else back to
\* Initialized (or Opened)
state_after_config(old, res) ==
  IF res.ret THEN "Configured"
  ELSE IF Issued(res.w.trace, "VIDIOC_STREAMOFF", 0 - 1) THEN old
  ELSE Unconfigured(res.w)

\* after camera_start: Streaming on success; on failure the buffers
\* camera_load has prepared or found stay (Configured, or still Streaming),
\* unless camera_load itself failed
state_after_start(old, res) ==
  IF res.ret THEN "Streaming"
  ELSE IF old \in {"Configured", "Streaming"} THEN old
  ELSE IF \E j \in 1 .. Len(res.w.trace) :
            res.w.trace[j].req \in {"VIDIOC_QBUF", "VIDIOC_STREAMON"}
    THEN "Configured"
  ELSE Unconfigured(res.w)

\* after camera_stop
state_after_stop(old, res) ==
  IF res.ret /\ old = "Streaming" THEN "Configured" ELSE old

\* the call that mapped the buffer set held after an operation: this one
\* when it has mapped regions and kept them, else the one before
origin_after(old, res, name) ==
  IF res.w.mapped = {} THEN "none"
  ELSE IF Issued(res.w.trace, "mmap", 0) THEN name
  ELSE old

\* the origin of the buffer set an operation has released
torn_by(old, res) == IF Issued(res.w.trace, "munmap", 0) /\ old # "none"
                       /\ ~Issued(res.w.trace, "VIDIOC_STREAMOFF", 0 - 1)
                       THEN old ELSE "none"

(***************************************************************************)
(* bool camera_control_get(camera, id, value)                              *)
(* bool camera_control_set(camera, id, value)                              *)
(* v: the value the driver holds for the control                           *)
(***************************************************************************)
camera_control_get(w, id, v, f) ==
  IF Injected(f, "VIDIOC_G_CTRL", 0)
    THEN error(Called(w, "VIDIOC_G_CTRL", << id >>, 0 - 1), "VIDIOC_G_CTRL")
    ELSE [w |-> Called(w, "VIDIOC_G_CTRL", << id, v >>, 0), ret |-> TRUE]

camera_control_set(w, id, value, f) ==
  IF Injected(f, "VIDIOC_S_CTRL", 0)
    THEN error(Called(w, "VIDIOC_S_CTRL", << id, value >>, 0 - 1), "VIDIOC_S_CTRL")
    ELSE [w |-> Called(w, "VIDIOC_S_CTRL", << id, value >>, 0), ret |-> TRUE]

(***************************************************************************)
(* Inputs.                                                                 *)
(***************************************************************************)
Config(wd, ht, fm, nu, de) ==
  [width |-> wd, height |-> ht, format |-> fm,
   interval |-> [numerator |-> nu, denominator |-> de]]

\* 1196444237 is v4l2_fourcc('M','J','P','G'), a format other than the default
Configs == { Config(0, 0, 0, 0, 0),
             Config(640, 480, 0, 1, 30),
             Config(320, 240, 1196444237, 0, 30),
             Config(640, 0, V4L2_PIX_FMT_YUYV, 1, 0) }

Crops == {"ok", "cropcap", "s_crop"}

\* the lengths the driver may give each of g buffers: the shortest or the
\* longest, buffer by buffer
Lens(g) == [1 .. g -> {1, MaxLen}]

\* an answer of the driver: the fault it injects, the outcome of the crop
\* calls, the size it settles on, the buffer count and lengths it grants
Env(f, c, s, g, l) == [fail |-> f, crop |-> c, fmt |-> s, grant |-> g, lens |-> l]

\* The answers are enumerated up to what a call can observe: a call that
\* fails before the driver's later answers are read is listed once.
CropsOf(w) == IF w.cam.initialized THEN {"ok"} ELSE Crops

\* buffer allocation failing at QUERYBUF or mmap of index i < g
PrepareFaultEnvs(C, s) ==
  UNION { { Env(<< r, i >>, c, s, g, [j \in 1 .. g |-> 1]) :
              r \in {"VIDIOC_QUERYBUF", "mmap"}, i \in 0 .. g - 1, c \in C } :
            g \in 1 .. MaxGrant }

\* buffer allocation succeeding
PrepareEnvs(F, C, s) ==
  UNION { { Env(f, c, s, g, l) : f \in F, c \in C, l \in Lens(g) } :
            g \in 1 .. MaxGrant }

ConfigEnvs(w, config) ==
  LET C == CropsOf(w)
      S == IF config.width > 0 /\ config.height > 0 THEN Sizes ELSE {w.drv.fmt}
  IN  { Env(<< r, 0 >>, "ok", w.drv.fmt, 1, << 1 >>) :
          r \in {"VIDIOC_STREAMOFF", "VIDIOC_QUERYCAP"} }
      \cup { Env(<< "VIDIOC_S_FMT", 0 >>, c, w.drv.fmt, 1, << 1 >>) : c \in C }
      \cup { Env(<< r, 0 >>, c, s, 1, << 1 >>) :
               r \in {"VIDIOC_S_PARM", "VIDIOC_G_FMT", "VIDIOC_REQBUFS"},
               c \in C, s \in S }
      \cup UNION { PrepareFaultEnvs(C, s) \cup PrepareEnvs({NoFault}, C, s) :
                     s \in S }

QueueFaults(n) ==
  { NoFault, << "VIDIOC_STREAMON", 0 >> }
    \cup { << "VIDIOC_QBUF", i >> : i \in 0 .. n - 1 }

StartEnvs(w) ==
  LET C == CropsOf(w)
      s == w.drv.fmt
  IN  IF w.cam.initialized /\ w.cam.buffer_count > 0
        THEN { Env(f, "ok", s, 1, << 1 >>) : f \in QueueFaults(w.cam.buffer_count) }
        ELSE { Env(<< "VIDIOC_QUERYCAP", 0 >>, "ok", s, 1, << 1 >>) }
             \cup { Env(<< r, 0 >>, c, s, 1, << 1 >>) :
                      r \in {"VIDIOC_G_FMT", "VIDIOC_REQBUFS"}, c \in C }
             \cup PrepareFaultEnvs(C, s)
             \cup UNION { { Env(f, c, s, g, l) : f \in QueueFaults(g), c \in C, l \in Lens(g) } :
                       g \in 1 .. MaxGrant }

\* the user-control ids and values of the model
CtrlIds == { 9963776, 9963777 }
CtrlValues == { 0, 1 }

\* the capability sets a device may report
CapSets == { {"VIDEO_CAPTURE", "STREAMING"}, {"VIDEO_CAPTURE"}, {"STREAMING"} }

(***************************************************************************)
(* camera_t* camera_open(device): the object and a device behind it        *)
(***************************************************************************)
camera_open ==
  [fd |-> "open", initialized |-> FALSE, width |-> 0, height |-> 0,
   buffer_count |-> 0, buffers |-> << >>,
   head |-> [length |-> 0, start |-> << >>]]

drv_open(caps) ==
  [caps |-> caps, fmt |-> << 640, 480 >>, nbufs |-> 0, queued |-> {},
   streaming |-> FALSE]

NoArgs == Config(0, 0, 0, 0, 0)

IoIdle == [pc |-> "idle", req |-> "none", i |-> 0, r |-> 0, errno |-> "none",
           attempts |-> 0]

\* no format tag is being converted, no control list has been built
CodecIdle == [pc |-> "idle", signed |-> FALSE, name |-> << >>, id |-> << >>,
              out |-> << >>]
CatalogIdle == [pc |-> "idle", dev |-> << >>, controls |-> << >>]

Init ==
  /\ cam = camera_open
  /\ \E caps \in CapSets : drv = drv_open(caps)
  /\ mapped = {}
  /\ sink = << >>
  /\ trace = << >>
  /\ op = "open"
  /\ args = NoArgs
  /\ ret = TRUE
  /\ origin = "none"
  /\ torn = "none"
  /\ state = "Opened"
  /\ ub = FALSE
  /\ io = IoIdle
  /\ codec = CodecIdle
  /\ catalog = CatalogIdle

\* the operation's effects become the state
Commit(res, name, a) ==
  /\ cam' = res.w.cam
  /\ drv' = res.w.drv
  /\ mapped' = res.w.mapped
  /\ sink' = res.w.sink
  /\ trace' = res.w.trace
  /\ ub' = res.w.ub
  /\ op' = name
  /\ args' = a
  /\ ret' = res.ret
  /\ origin' = origin_after(origin, res, name)
  /\ torn' = torn_by(origin, res)
  /\ UNCHANGED << io, codec, catalog >>

\* a call can start once the caller has taken the previous call's result
Live == cam.fd = "open" /\ ~ub /\ op = "idle"

Configure ==
  /\ Live
  /\ \E config \in Configs : \E e \in ConfigEnvs(World, config) :
       LET res == camera_config(World, config, e)
       IN  /\ Commit(res, "configure", config)
           /\ state' = state_after_config(state, res)

Start ==
  /\ Live
  /\ \E e \in StartEnvs(World) :
       LET res == camera_start(World, e)
       IN  /\ Commit(res, "start", NoArgs)
           /\ state' = state_after_start(state, res)

Stop ==
  /\ Live
  /\ \E f \in {NoFault, << "VIDIOC_STREAMOFF", 0 >>} :
       LET res == camera_stop(World, f)
       IN  /\ Commit(res, "stop", NoArgs)
           /\ state' = state_after_stop(state, res)

\* the driver has nothing to hand out, or the call fails otherwise
CaptureEmpty ==
  /\ Live
  /\ Commit(camera_capture(World, << "VIDIOC_DQBUF", 0 >>, 0, << >>),
            "capture", NoArgs)
  /\ UNCHANGED state

\* the driver hands out buffer k holding a frame
CaptureFrame ==
  /\ Live
  /\ \E k \in drv.queued : \E frame \in Frames(cam.buffers[k + 1].length) :
       \E f \in {NoFault, << "VIDIOC_QBUF", 0 >>} :
         /\ drv_can_dqbuf(drv, k)
         /\ Commit(camera_capture(World, f, k, frame), "capture", NoArgs)
         /\ UNCHANGED state

Close ==
  /\ Live
  /\ \E f \in {NoFault, << "VIDIOC_STREAMOFF", 0 >>},
        nfail \in {0, 1, CLOSE_ATTEMPTS} :
       /\ Commit(camera_close(World, f, nfail), "close", NoArgs)
       /\ state' = "Closed"

\* the caller has read the result of the last call: what the sink and the
\* trace hold from now on belongs to the next call
Return ==
  /\ op # "idle"
  /\ ~ub
  /\ op' = "idle"
  /\ args' = NoArgs
  /\ sink' = << >>
  /\ trace' = << >>
  /\ torn' = "none"
  /\ ret' = TRUE
  /\ UNCHANGED << cam, drv, mapped, origin, state, ub, io, codec, catalog >>

\* the caller opens the device again after a close
Open ==
  /\ cam.fd = "closed"
  /\ op = "idle"
  /\ ~ub
  /\ cam' = camera_open
  /\ \E caps \in CapSets : drv' = drv_open(caps)
  /\ mapped' = mapped
  /\ sink' = << >>
  /\ trace' = << >>
  /\ op' = "open"
  /\ args' = NoArgs
  /\ ret' = TRUE
  /\ origin' = "none"
  /\ torn' = "none"
  /\ state' = "Opened"
  /\ UNCHANGED << ub, io, codec, catalog >>

Next ==
  \/ Configure
  \/ Start
  \/ Stop
  \/ CaptureEmpty
  \/ CaptureFrame
  \/ Close
  \/ Open
  \/ Return

Spec == Init /\ [][Next]_vars

(***************************************************************************)
(* The ioctl layer, one attempt at a time (second specification).          *)
(* static int xioctl(fd, request, arg) wraps the capture requests; the     *)
(* control functions call ioctl() directly.                                *)
(***************************************************************************)
\* the requests issued through xioctl (lines 95-279)
XioctlReqs ==
  { "VIDIOC_QUERYCAP", "VIDIOC_CROPCAP", "VIDIOC_S_CROP", "VIDIOC_REQBUFS",
    "VIDIOC_QUERYBUF", "VIDIOC_G_FMT", "VIDIOC_S_FMT", "VIDIOC_S_PARM",
    "VIDIOC_STREAMOFF", "VIDIOC_QBUF", "VIDIOC_STREAMON", "VIDIOC_DQBUF" }

\* the requests issued through ioctl (lines 370, 384, 433, 444)
IoctlReqs ==
  { "VIDIOC_QUERYMENU", "VIDIOC_QUERYCTRL", "VIDIOC_G_CTRL", "VIDIOC_S_CTRL" }

\* what one ioctl() system call can answer: << r, errno >>
Outcomes == { << 0, "none" >>, << 0 - 1, "EINTR" >>, << 0 - 1, "EINVAL" >> }

\* one pass through the body of xioctl's loop, the kernel answering o
xioctl(s, o) ==
  IF o[1] # 0 - 1 \/ o[2] # "EINTR"
    THEN [s EXCEPT !.pc = "done", !.r = o[1], !.errno = o[2],
                   !.attempts = @ + 1]
  ELSE IF s.i + 1 < MAX_ATTEMPTS
    THEN [s EXCEPT !.i = @ + 1, !.r = o[1], !.errno = o[2], !.attempts = @ + 1]
  ELSE [s EXCEPT !.i = @ + 1, !.pc = "done", !.r = 0 - 1, !.errno = o[2],
                 !.attempts = @ + 1]

\* a direct ioctl() call: its answer is the result
ioctl(s, o) ==
  [s EXCEPT !.pc = "done", !.r = o[1], !.errno = o[2], !.attempts = @ + 1]

Main == << cam, drv, mapped, sink, trace, op, args, ret, origin, torn, state, ub,
          codec, catalog >>

\* the code issues a request
IoCall ==
  /\ io.pc \in {"idle", "done"}
  /\ \E req \in XioctlReqs \cup IoctlReqs :
       io' = [IoIdle EXCEPT !.pc = "call", !.req = req]
  /\ UNCHANGED Main

Xioctl ==
  /\ io.pc = "call"
  /\ io.req \in XioctlReqs
  /\ \E o \in Outcomes : io' = xioctl(io, o)
  /\ UNCHANGED Main

Ioctl ==
  /\ io.pc = "call"
  /\ io.req \in IoctlReqs
  /\ \E o \in Outcomes : io' = ioctl(io, o)
  /\ UNCHANGED Main

ControlGet ==
  /\ cam.fd = "open"
  /\ \E id \in CtrlIds, v \in CtrlValues, f \in {NoFault, << "VIDIOC_G_CTRL", 0 >>} :
       /\ Commit(camera_control_get(World, id, v, f), "control_get", NoArgs)
       /\ UNCHANGED state

ControlSet ==
  /\ cam.fd = "open"
  /\ \E id \in CtrlIds, v \in CtrlValues, f \in {NoFault, << "VIDIOC_S_CTRL", 0 >>} :
       /\ Commit(camera_control_set(World, id, v, f), "control_set", NoArgs)
       /\ UNCHANGED state

NextIo ==
  \/ IoCall
  \/ Xioctl
  \/ Ioctl
  \/ ControlGet
  \/ ControlSet

SpecIo == Init /\ [][NextIo]_vars

(***************************************************************************)
(* FormatCodec (third specification): camera_format_id and                 *)
(* camera_format_name.  A uint32_t is held as its four bytes, the least    *)
(* significant first; a char as its 8-bit pattern 0..255.                  *)
(***************************************************************************)
\* the values the characters of a tag are drawn from
Chars == {0, 89, 127, 128, 255}
Names == [1 .. 4 -> Chars]

\* a | b on the lowest n bits
RECURSIVE BitOr(_, _, _)
BitOr(a, b, n) ==
  IF n = 0 THEN 0
  ELSE (IF a % 2 = 1 \/ b % 2 = 1 THEN 1 ELSE 0)
         + 2 * BitOr(a \div 2, b \div 2, n - 1)

\* x | y on uint32_t
Or32(x, y) == [i \in 1 .. 4 |-> BitOr(x[i], y[i], 8)]
\* x << (8 * k) on uint32_t: the bytes shifted out are lost
Shl8(x, k) == [i \in 1 .. 4 |-> IF i > k THEN x[i - k] ELSE 0]
\* x >> (8 * k) on uint32_t
Shr8(x, k) == [i \in 1 .. 4 |-> IF i + k <= 4 THEN x[i + k] ELSE 0]
\* x & 0xff
LowByte(x) == x[1]

\* (uint32_t) c for a char c: where char is a signed type a pattern of 128
\* and above is a negative value, and the conversion extends its sign
ToU32(c, signed) ==
  IF signed /\ c >= 128 THEN << c, 255, 255, 255 >> ELSE << c, 0, 0, 0 >>

\* uint32_t camera_format_id(const char* name)
camera_format_id(name, signed) ==
  Or32(Or32(Or32(ToU32(name[1], signed),
                 Shl8(ToU32(name[2], signed), 1)),
            Shl8(ToU32(name[3], signed), 2)),
       Shl8(ToU32(name[4], signed), 3))

\* void camera_format_name(uint32_t format_id, char* name)
camera_format_name(format_id) ==
  << LowByte(format_id), LowByte(Shr8(format_id, 1)),
     LowByte(Shr8(format_id, 2)), LowByte(Shr8(format_id, 3)), 0 >>

\* a tag to convert, on a build whose char is signed or unsigned
InitCodec ==
  /\ cam = camera_open
  /\ drv = drv_open({"VIDEO_CAPTURE", "STREAMING"})
  /\ mapped = {}
  /\ sink = << >>
  /\ trace = << >>
  /\ op = "open"
  /\ args = NoArgs
  /\ ret = TRUE
  /\ origin = "none"
  /\ torn = "none"
  /\ state = "Opened"
  /\ ub = FALSE
  /\ io = IoIdle
  /\ catalog = CatalogIdle
  /\ \E name \in Names, signed \in BOOLEAN :
       codec = [CodecIdle EXCEPT !.pc = "name", !.name = name, !.signed = signed]

NotCodec == << cam, drv, mapped, sink, trace, op, args, ret, origin, torn, state,
              ub, io, catalog >>

FormatId ==
  /\ codec.pc = "name"
  /\ codec' = [codec EXCEPT !.pc = "id",
                            !.id = camera_format_id(codec.name, codec.signed)]
  /\ UNCHANGED NotCodec

FormatName ==
  /\ codec.pc = "id"
  /\ codec' = [codec EXCEPT !.pc = "done", !.out = camera_format_name(codec.id)]
  /\ UNCHANGED NotCodec

NextCodec ==
  \/ FormatId
  \/ FormatName

SpecCodec == InitCodec /\ [][NextCodec]_vars

(***************************************************************************)
(* ControlCatalog (fourth specification): camera_controls_new and the      *)
(* helpers it calls.  The device is a table from the ids of the            *)
(* user-control range to what it answers for each.                         *)
(***************************************************************************)
\* for (cid = V4L2_CID_USER_BASE; cid < V4L2_CID_LASTP1; cid++)
V4L2_CID_LASTP1 == V4L2_CID_USER_BASE + MaxCtrls
Cids == V4L2_CID_USER_BASE .. (V4L2_CID_LASTP1 - 1)

MenuTypes == {"MENU", "INTEGER_MENU"}

\* what the device holds for one id: nothing (the id is rejected), or a
\* control of some type and maximum whose menu indices in `accept` exist
Rejected == [type |-> "none", maximum |-> 0, accept |-> {}]
DevControls ==
  { Rejected, [type |-> "INTEGER", maximum |-> MaxMenu, accept |-> {}] }
    \cup { [type |-> ty, maximum |-> mx, accept |-> ac] :
             ty \in MenuTypes, mx \in {0, MaxMenu}, ac \in SUBSET (0 .. MaxMenu) }
Devices == { d \in [Cids -> DevControls] :
               \A c \in Cids : d[c].accept \subseteq 0 .. d[c].maximum }

\* the flag bits the device sets on a control of each type
DevFlags(ty) == IF ty = "INTEGER" THEN {"SLIDER"} ELSE {}

\* ioctl(fd, VIDIOC_QUERYCTRL, &qctrl)
drv_queryctrl(dev, cid) ==
  IF dev[cid] = Rejected
    THEN [r |-> 0 - 1, qctrl |-> Rejected]
    ELSE [r |-> 0,
          qctrl |-> [id |-> cid, name |-> << 99, cid - V4L2_CID_USER_BASE >>,
                     flags |-> DevFlags(dev[cid].type), type |-> dev[cid].type,
                     maximum |-> dev[cid].maximum, minimum |-> 0, step |-> 1,
                     default_value |-> 0]]

\* ioctl(fd, VIDIOC_QUERYMENU, &qmenu): a name for a menu, a value for an
\* integer menu
drv_querymenu(dev, id, index) ==
  IF index \in dev[id].accept
    THEN [r |-> 0,
          qmenu |-> [name |-> IF dev[id].type = "MENU" THEN << 105, index >>
                                                       ELSE << >>,
                     value |-> IF dev[id].type = "MENU" THEN 0 ELSE index + 1]]
    ELSE [r |-> 0 - 1, qmenu |-> [name |-> << >>, value |-> 0]]

\* a camera_menu_t as calloc leaves it
ZeroMenu == [name |-> << >>, value |-> 0]

camera_menu_copy(menu, qmenu) == [menu EXCEPT !.name = qmenu.name]
camera_integer_menu_copy(menu, qmenu) == [menu EXCEPT !.value = qmenu.value]

RECURSIVE menus_loop(_, _, _)
menus_loop(dev, control, mindex) ==
  IF mindex >= Len(control.menus) THEN control
  ELSE LET q == drv_querymenu(dev, control.id, mindex)
           c == IF q.r # 0 THEN control
                ELSE IF control.type = "INTEGER_MENU"
                  THEN [control EXCEPT !.menus[mindex + 1] =
                                          camera_integer_menu_copy(@, q.qmenu)]
                  ELSE [control EXCEPT !.menus[mindex + 1] =
                                          camera_menu_copy(@, q.qmenu)]
       IN  menus_loop(dev, c, mindex + 1)

\* mutant: the list is one entry short of max + 1
camera_controls_menus_short(dev, control) ==
  IF control.type \notin MenuTypes
    THEN [control EXCEPT !.menus = << >>]
    ELSE menus_loop(dev, [control EXCEPT !.menus = [i \in 1 .. control.max |-> ZeroMenu]],
                    0)

\* static void camera_controls_menus(camera, control)
camera_controls_menus(dev, control) ==
  IF control.type \notin MenuTypes
    THEN [control EXCEPT !.menus = << >>]
    ELSE menus_loop(dev, [control EXCEPT !.menus =
                                    [i \in 1 .. control.max + 1 |-> ZeroMenu]],
                    0)

\* static camera_control_t* camera_controls_query(camera, control_list)
RECURSIVE camera_controls_query(_, _, _)
camera_controls_query(dev, control_list, cid) ==
  IF cid >= V4L2_CID_LASTP1 THEN control_list
  ELSE LET q == drv_queryctrl(dev, cid)
           control ==
             [id |-> q.qctrl.id, name |-> q.qctrl.name,
              flags |-> [disabled |-> "DISABLED" \in q.qctrl.flags,
                         grabbed |-> "GRABBED" \in q.qctrl.flags,
                         read_only |-> "READ_ONLY" \in q.qctrl.flags,
                         update |-> "UPDATE" \in q.qctrl.flags,
                         inactive |-> "INACTIVE" \in q.qctrl.flags,
                         slider |-> "SLIDER" \in q.qctrl.flags,
                         write_only |-> "WRITE_ONLY" \in q.qctrl.flags,
                         volatile_value |-> "VOLATILE" \in q.qctrl.flags],
              type |-> q.qctrl.type, max |-> q.qctrl.maximum,
              min |-> q.qctrl.minimum, step |-> q.qctrl.step,
              default_value |-> q.qctrl.default_value, menus |-> << >>]
       IN  IF q.r = 0 - 1
             THEN camera_controls_query(dev, control_list, cid + 1)
             ELSE camera_controls_query(dev,
                    Append(control_list, camera_controls_menus(dev, control)),
                    cid + 1)

\* camera_controls_t* camera_controls_new(camera)
camera_controls_new(dev) ==
  LET control_list == camera_controls_query(dev, << >>, V4L2_CID_USER_BASE)
  IN  [length |-> Len(control_list),
       head |-> [i \in 1 .. Len(control_list) |-> control_list[i]]]

\* a device whose controls are to be enumerated
InitCatalog ==
  /\ cam = camera_open
  /\ drv = drv_open({"VIDEO_CAPTURE", "STREAMING"})
  /\ mapped = {}
  /\ sink = << >>
  /\ trace = << >>
  /\ op = "open"
  /\ args = NoArgs
  /\ ret = TRUE
  /\ origin = "none"
  /\ torn = "none"
  /\ state = "Opened"
  /\ ub = FALSE
  /\ io = IoIdle
  /\ codec = CodecIdle
  /\ \E dev \in Devices : catalog = [CatalogIdle EXCEPT !.pc = "dev", !.dev = dev]

NotCatalog == << cam, drv, mapped, sink, trace, op, args, ret, origin, torn,
                state, ub, io, codec >>

ControlsNew ==
  /\ catalog.pc = "dev"
  /\ cam.fd = "open"
  /\ catalog' = [catalog EXCEPT !.pc = "done",
                                !.controls = camera_controls_new(catalog.dev)]
  /\ UNCHANGED NotCatalog

NextCatalog == ControlsNew

SpecCatalog == InitCatalog /\ [][NextCatalog]_vars

(***************************************************************************)
(* Reading the trace of an operation.                                      *)
(***************************************************************************)
\* the positions of the calls of request req that returned r
Idx(t, req, r) == { j \in 1 .. Len(t) : t[j].req = req /\ t[j].r = r }
\* the positions of every call of request req
IdxAny(t, req) == { j \in 1 .. Len(t) : t[j].req = req }
\* the one call of request req that returned r
The(t, req, r) == t[CHOOSE j \in Idx(t, req, r) : TRUE]
\* the count VIDIOC_REQBUFS granted
Granted(t) == The(t, "VIDIOC_REQBUFS", 0).arg[2]
\* the successful munmap calls on address a
Unmaps(t, a) == { j \in Idx(t, "munmap", 0) : t[j].arg = << a >> }
AddrsOf(m) == { g.addr : g \in m }
\* the largest length among the capture buffers, 0 when there is none
MaxBufLen(c) ==
  IF c.buffers = << >> THEN 0
  ELSE CHOOSE n \in { c.buffers[i].length : i \in 1 .. Len(c.buffers) } :
         \A i \in 1 .. Len(c.buffers) : c.buffers[i].length <= n

(***************************************************************************)
(* C1: a successful configure() on a device whose buffer set was mapped by *)
(* an earlier successful configure() (whatever was called in between)      *)
(* leaves exactly one buffer set: the mapped regions are the buffers of    *)
(* this call, their number and buffer_count are the count granted to this  *)
(* call, and every region of the earlier set was unmapped, once, before    *)
(* the first new region was mapped.                                        *)
(***************************************************************************)
C1_ReconfigureLeavesOneBufferSet ==
  [][ (op = "idle" /\ origin = "configure" /\ op' = "configure" /\ ret')
        => /\ Cardinality(mapped') = Granted(trace')
           /\ cam'.buffer_count = Granted(trace')
           /\ Len(cam'.buffers) = Granted(trace')
           /\ AddrsOf(mapped') =
                { cam'.buffers[i].start : i \in 1 .. Len(cam'.buffers) }
           /\ \A a \in AddrsOf(mapped) :
                /\ Cardinality(Unmaps(trace', a)) = 1
                /\ \A j \in Unmaps(trace', a) :
                     \A m \in IdxAny(trace', "mmap") : j < m ]_vars

\* a second configure() has succeeded with a smaller grant than the first
C1_Witness ==
  /\ op = "configure" /\ ret /\ torn = "configure"
  /\ Cardinality(Idx(trace, "munmap", 0)) = MaxGrant
  /\ Granted(trace) = 1
  /\ Cardinality(mapped) = 1

(***************************************************************************)
(* C2: close() unmaps every region mapped when it is called exactly once,  *)
(* unmaps nothing else, leaves no region mapped and closes the handle,     *)
(* whether or not its stream-off succeeds.                                 *)
(***************************************************************************)
C2_CloseReleasesEveryRegionOnce ==
  [][ (op = "idle" /\ op' = "close")
        => /\ mapped' = {}
           /\ cam'.fd = "closed"
           /\ ret'
           /\ IdxAny(trace', "close") # {}
           /\ \A a \in AddrsOf(mapped) : Cardinality(Unmaps(trace', a)) = 1
           /\ Idx(trace', "munmap", 0 - 1) = {}
           /\ \A j \in Idx(trace', "munmap", 0) :
                trace'[j].arg[1] \in AddrsOf(mapped) ]_vars

\* close() has released a full buffer set although its stream-off failed
C2_Witness ==
  /\ op = "close"
  /\ Idx(trace, "VIDIOC_STREAMOFF", 0 - 1) # {}
  /\ Cardinality(Idx(trace, "munmap", 0)) = MaxGrant
  /\ mapped = {}

(***************************************************************************)
(* C3: a capture() whose dequeue fails returns false at once: the          *)
(* snapshot's bytes and length are what they were, nothing is enqueued.    *)
(***************************************************************************)
C3_EmptyCaptureKeepsSnapshot ==
  [][ (op = "idle" /\ op' = "capture" /\ Idx(trace', "VIDIOC_DQBUF", 0 - 1) # {})
        => /\ ret' = FALSE
           /\ cam'.head = cam.head
           /\ IdxAny(trace', "VIDIOC_QBUF") = {}
           /\ Len(trace') = 1
           /\ drv'.queued = drv.queued ]_vars

\* the dequeue has failed on a streaming device that holds a snapshot
C3_Witness ==
  /\ op = "capture" /\ ~ret
  /\ Idx(trace, "VIDIOC_DQBUF", 0 - 1) # {}
  /\ drv.streaming
  /\ cam.head.length > 0

(***************************************************************************)
(* C4: a capture() that dequeues buffer k holding n bytes and enqueues it  *)
(* again returns true; the snapshot's length is n, its first n bytes are   *)
(* the first n bytes of buffer k, and the buffer enqueued is k.            *)
(***************************************************************************)
C4_CaptureCopiesFrame ==
  (op = "capture" /\ Idx(trace, "VIDIOC_DQBUF", 0) # {}
      /\ Idx(trace, "VIDIOC_QBUF", 0) # {})
    => LET k == The(trace, "VIDIOC_DQBUF", 0).arg[1]
           n == The(trace, "VIDIOC_DQBUF", 0).arg[2]
           frame == The(trace, "frame", 0).arg
       IN  /\ ret
           /\ ~ub
           /\ n = Len(frame)
           /\ cam.head.length = n
           /\ n <= Len(cam.head.start)
           /\ \A j \in 1 .. n : cam.head.start[j] = frame[j]
           /\ The(trace, "VIDIOC_QBUF", 0).arg = << k >>
           /\ MapsBuffer(mapped, cam.buffers[k + 1].start, k)

\* a frame of two bytes or more has been copied out of a buffer other
\* than the first
C4_Witness ==
  /\ op = "capture" /\ ret
  /\ Idx(trace, "VIDIOC_DQBUF", 0) # {}
  /\ The(trace, "VIDIOC_DQBUF", 0).arg[1] >= 1
  /\ The(trace, "VIDIOC_DQBUF", 0).arg[2] >= 2
  /\ cam.head.length >= 2

(***************************************************************************)
(* C5: when the query or the mapping of buffer i fails during allocation,  *)
(* the i buffers mapped so far are each unmapped once, the operation       *)
(* fails, and afterwards nothing is mapped and buffer_count is 0.          *)
(***************************************************************************)
PrepareFailures(t) ==
  Idx(t, "VIDIOC_QUERYBUF", 0 - 1) \cup Idx(t, "mmap", 0 - 1)

C5_PartialAllocationRollsBack ==
  (op \in {"configure", "start"} /\ PrepareFailures(trace) # {})
    => LET jf == CHOOSE j \in PrepareFailures(trace) : TRUE
           i  == trace[jf].arg[1]
           sofar == { trace[m].arg[2] : m \in Idx(trace, "mmap", 0) }
           after == { j \in IdxAny(trace, "munmap") : j > jf }
       IN  /\ ret = FALSE
           /\ mapped = {}
           /\ cam.buffer_count = 0
           /\ Cardinality(sofar) = i
           /\ Cardinality(after) = i
           /\ \A j \in after : trace[j].r = 0
           /\ \A a \in sofar :
                Cardinality({ j \in after : trace[j].arg = << a >> }) = 1

\* the mapping of the last of MaxGrant buffers has failed
C5_Witness ==
  /\ op \in {"configure", "start"}
  /\ \E j \in Idx(trace, "mmap", 0 - 1) : trace[j].arg[1] = MaxGrant - 1
  /\ Cardinality(Idx(trace, "munmap", 0)) >= MaxGrant - 1
  /\ mapped = {}

C7_SnapshotLengthBounded ==
  /\ cam.head.length <= MaxBufLen(cam)
  /\ cam.buffer_count > 0 => Len(cam.head.start) = MaxBufLen(cam)
  /\ cam.buffer_count = 0 => cam.head.length = 0

\* a frame as long as the longest buffer has been captured from a buffer
\* set whose buffers differ in length
C7_Witness ==
  /\ op = "capture" /\ ret
  /\ cam.head.length = MaxBufLen(cam)
  /\ cam.head.length >= 2
  /\ \E i \in 1 .. Len(cam.buffers) : cam.buffers[i].length < MaxBufLen(cam)

(***************************************************************************)
(* C8: a public operation that returns failure because a device call       *)
(* reported an error has sent an ERROR event naming that call to the sink. *)
(***************************************************************************)
PublicOps == {"configure", "start", "capture", "stop", "control_get", "control_set"}

C8_EveryDeviceErrorReachesSink ==
  (op \in PublicOps /\ ~ret /\ trace # << >> /\ trace[Len(trace)].r = 0 - 1)
    => \E j \in 1 .. Len(sink) : sink[j] = << "ERROR", trace[Len(trace)].req >>

(***************************************************************************)
(* C9: every kernel request, the control requests included, is re-issued   *)
(* on a signal interruption until 100 attempts have been made: a call that *)
(* has ended on an interruption has made all 100 attempts.                 *)
(***************************************************************************)
C9_EveryRequestRetriesOnEintr ==
  (io.pc = "done" /\ io.r = 0 - 1 /\ io.errno = "EINTR")
    => io.attempts = MAX_ATTEMPTS

(***************************************************************************)
(* C10: the pixel format configure() sends in VIDIOC_S_FMT is              *)
(* Config.format when that is nonzero and the packed 4:2:2 format when it  *)
(* is zero.                                                                *)
(***************************************************************************)
C10_PixelFormatDefaultsToYuyv ==
  (op = "configure" /\ args.width > 0 /\ args.height > 0)
    => \A j \in IdxAny(trace, "VIDIOC_S_FMT") :
         trace[j].arg[3] = IF args.format # 0 THEN args.format
                                              ELSE V4L2_PIX_FMT_YUYV

(***************************************************************************)
(* C11: a configure() in which a device call fails returns failure, sends  *)
(* one ERROR event naming that call, and leaves the device at a stable     *)
(* state: either nothing has changed (state, buffer set, snapshot, width   *)
(* and height as before the call), or the teardown is complete and the     *)
(* device is Initialized (or Opened) with no buffer set, an empty snapshot *)
(* and the width and height it had, no part of the new configuration       *)
(* applied.                                                                *)
(***************************************************************************)
\* the calls of a trace that failed, the best-effort crop calls aside
Failing(t) ==
  { j \in 1 .. Len(t) :
      /\ t[j].r = 0 - 1
      /\ t[j].req \notin {"VIDIOC_CROPCAP", "VIDIOC_S_CROP"} }

C11_FailedConfigureKeepsStableState ==
  [][ (op = "idle" /\ op' = "configure" /\ Failing(trace') # {})
        => /\ ret' = FALSE
           /\ \E j \in Failing(trace') :
                sink' = << << "ERROR", trace'[j].req >> >>
           /\ \/ /\ cam' = cam
                 /\ mapped' = mapped
                 /\ state' = state
              \/ /\ state' \in {"Opened", "Initialized"}
                 /\ cam'.buffer_count = 0
                 /\ cam'.buffers = << >>
                 /\ mapped' = {}
                 /\ cam'.head = [length |-> 0, start |-> << >>]
                 /\ cam'.width = cam.width
                 /\ cam'.height = cam.height ]_vars

(***************************************************************************)
(* C14: start() enqueues the buffers 0, 1, ... in ascending order and      *)
(* issues stream-on only after the enqueue of every buffer of the set has  *)
(* succeeded.  When the enqueue of buffer i fails, start() returns         *)
(* failure, issues no stream-on, sends the ERROR event of the enqueue, and *)
(* rolls nothing back: buffers 0..i-1 stay queued with the driver and the  *)
(* buffer set stays mapped.                                                *)
(***************************************************************************)
C14_StartEnqueuesThenStreams ==
  [][ (op = "idle" /\ op' = "start")
        => LET t   == trace'
               q   == IdxAny(t, "VIDIOC_QBUF")
               son == IdxAny(t, "VIDIOC_STREAMON")
           IN  /\ \A j \in q :
                    t[j].arg = << Cardinality({ m \in q : m < j }) >>
               /\ \A s \in son :
                    /\ Cardinality(Idx(t, "VIDIOC_QBUF", 0)) = cam'.buffer_count
                    /\ cam'.buffer_count > 0
                    /\ \A j \in q : j < s /\ t[j].r = 0
               /\ \A j \in Idx(t, "VIDIOC_QBUF", 0 - 1) :
                    LET i == t[j].arg[1]
                    IN  /\ ret' = FALSE
                        /\ son = {}
                        /\ sink' = << << "ERROR", "VIDIOC_QBUF" >> >>
                        /\ \A b \in 0 .. i - 1 : b \in drv'.queued
                        /\ Cardinality(Idx(t, "munmap", 0)) = 0
                        /\ mapped' # {}
                        /\ Cardinality(mapped') = cam'.buffer_count
                        /\ Idx(t, "mmap", 0) = {} => mapped' = mapped ]_vars

\* the enqueue of the last buffer of a set of MaxGrant has failed after the
\* buffers before it were enqueued
C14_Witness ==
  /\ op = "start" /\ ~ret
  /\ \E j \in Idx(trace, "VIDIOC_QBUF", 0 - 1) : trace[j].arg = << MaxGrant - 1 >>
  /\ Cardinality(Idx(trace, "VIDIOC_QBUF", 0)) = MaxGrant - 1
  /\ 0 \in drv.queued
  /\ Cardinality(mapped) = MaxGrant

(***************************************************************************)
(* C15: a configure() on a device that holds a buffer set tears down       *)
(* before it rebuilds: it issues stream-off only if the device is          *)
(* Streaming; it unmaps only after the stream-off, where one is due, has   *)
(* succeeded; it issues no set-format, set-frame-interval or               *)
(* buffer-request call before every region of the previous set is          *)
(* unmapped; and on a Configured device that is not Streaming its success  *)
(* does not depend on a stream-off call.                                   *)
(***************************************************************************)
C15_ConfigureTearsDownBeforeRebuilding ==
  [][ (op = "idle" /\ op' = "configure" /\ cam.buffer_count > 0)
        => LET t   == trace'
               off == IdxAny(t, "VIDIOC_STREAMOFF")
               new == IdxAny(t, "VIDIOC_S_FMT") \cup IdxAny(t, "VIDIOC_S_PARM")
                        \cup IdxAny(t, "VIDIOC_REQBUFS")
           IN  /\ off # {} => state = "Streaming"
               /\ state = "Streaming" =>
                    \A u \in IdxAny(t, "munmap") :
                      \E s \in Idx(t, "VIDIOC_STREAMOFF", 0) : s < u
               /\ \A j \in new : \A a \in AddrsOf(mapped) :
                    \E u \in Unmaps(t, a) : u < j
               /\ (state = "Configured" /\ Failing(t) \subseteq off) => ret' ]_vars

(***************************************************************************)
(* C16: on a device that lacks the capture or the streaming capability a   *)
(* configure() or start() returns failure, the device stays Opened (never  *)
(* Initialized), and no format, frame-interval, buffer-request, enqueue or *)
(* stream-on call is issued; the capability query, once answered, is       *)
(* followed by one FAILURE event naming the missing capability.  A failed  *)
(* crop query or crop reset does not prevent initialization and sends      *)
(* nothing to the sink.  An initialized device is not initialized again.   *)
(***************************************************************************)
InitReqs == {"VIDIOC_QUERYCAP", "VIDIOC_CROPCAP", "VIDIOC_S_CROP"}
SetupReqs == {"VIDIOC_S_FMT", "VIDIOC_G_FMT", "VIDIOC_S_PARM", "VIDIOC_REQBUFS",
              "VIDIOC_QUERYBUF", "mmap", "VIDIOC_QBUF", "VIDIOC_STREAMON"}
Reqs(t) == { t[j].req : j \in 1 .. Len(t) }
CropFailures(t) ==
  Idx(t, "VIDIOC_CROPCAP", 0 - 1) \cup Idx(t, "VIDIOC_S_CROP", 0 - 1)

C16_CapabilitiesGateInitialization ==
  [][ (op = "idle" /\ op' \in {"configure", "start"})
        => LET t == trace'
           IN  /\ {"VIDEO_CAPTURE", "STREAMING"} \ drv.caps # {} =>
                    /\ ret' = FALSE
                    /\ ~cam'.initialized
                    /\ state' = "Opened"
                    /\ Reqs(t) \cap SetupReqs = {}
                    /\ Idx(t, "VIDIOC_QUERYCAP", 0) # {} =>
                         sink' = << << "FAIL",
                                       IF "VIDEO_CAPTURE" \notin drv.caps
                                         THEN "no capture" ELSE "no streaming" >> >>
               /\ CropFailures(t) # {} =>
                    /\ cam'.initialized
                    /\ \A j \in 1 .. Len(sink') :
                         sink'[j][2] \notin {"VIDIOC_CROPCAP", "VIDIOC_S_CROP"}
                    /\ Failing(t) = {} => (sink' = << >> /\ ret')
               /\ cam.initialized => Reqs(t) \cap InitReqs = {} ]_vars

\* a start() has been refused for the missing streaming capability
C16_Witness ==
  /\ op = "start" /\ ~ret
  /\ "STREAMING" \notin drv.caps
  /\ sink = << << "FAIL", "no streaming" >> >>
  /\ ~cam.initialized
  /\ Idx(trace, "VIDIOC_QUERYCAP", 0) # {}

(***************************************************************************)
(* C17: the core reads the mapped memory of a capture buffer only inside   *)
(* capture(), after that call has dequeued the buffer and before it asks   *)
(* for its re-enqueue; the buffer read belongs to the buffer set mapped at *)
(* that time, so no read touches a buffer the driver owns, an unmapped     *)
(* region, or memory when no buffer set exists.                            *)
(***************************************************************************)
C17_ReadsOnlyDequeuedMappedBuffer ==
  [][ op = "idle"
        => /\ ub' = FALSE
           /\ \A m \in IdxAny(trace', "memcpy") :
                /\ op' = "capture"
                /\ IdxAny(trace', "munmap") = {}
                /\ \A q \in IdxAny(trace', "VIDIOC_QBUF") : m < q
                /\ \E d \in Idx(trace', "VIDIOC_DQBUF", 0) :
                     LET k == trace'[d].arg[1]
                     IN  /\ d < m
                         /\ k \in drv.queued
                         /\ cam.buffer_count > 0
                         /\ k < cam.buffer_count
                         /\ trace'[m].arg[1] = cam.buffers[k + 1].start
                         /\ MapsBuffer(mapped, cam.buffers[k + 1].start, k)
                         /\ trace'[m].arg[2] <= cam.buffers[k + 1].length ]_vars

\* a frame has been read out of the last buffer of a set of MaxGrant
C17_Witness ==
  /\ op = "capture"
  /\ \E m \in IdxAny(trace, "memcpy") :
       /\ trace[m].arg[2] >= 1
       /\ MapsBuffer(mapped, trace[m].arg[1], MaxGrant - 1)

(***************************************************************************)
(* C18: a capture() that dequeues buffer k but whose re-enqueue fails      *)
(* returns false; the snapshot holds the frame just dequeued, its length   *)
(* the frame's byte count; buffer k is not back with the driver, which     *)
(* holds one queued buffer less than before the call.                      *)
(***************************************************************************)
C18_RequeueFailureKeepsFrame ==
  [][ (op = "idle" /\ op' = "capture" /\ Idx(trace', "VIDIOC_DQBUF", 0) # {}
         /\ Idx(trace', "VIDIOC_QBUF", 0 - 1) # {})
        => LET k == The(trace', "VIDIOC_DQBUF", 0).arg[1]
               n == The(trace', "VIDIOC_DQBUF", 0).arg[2]
               frame == The(trace', "frame", 0).arg
           IN  /\ ret' = FALSE
               /\ n = Len(frame)
               /\ cam'.head.length = n
               /\ n <= Len(cam'.head.start)
               /\ \A j \in 1 .. n : cam'.head.start[j] = frame[j]
               /\ k \in drv.queued
               /\ drv'.queued = drv.queued \ {k}
               /\ Cardinality(drv'.queued) = Cardinality(drv.queued) - 1
               /\ mapped' = mapped
               /\ cam'.buffers = cam.buffers ]_vars

\* the re-enqueue has failed after a frame of two bytes or more was copied,
\* and the driver is left without a queued buffer
C18_Witness ==
  /\ op = "capture" /\ ~ret
  /\ Idx(trace, "VIDIOC_QBUF", 0 - 1) # {}
  /\ Idx(trace, "VIDIOC_DQBUF", 0) # {}
  /\ cam.head.length >= 2
  /\ cam.head.length = The(trace, "VIDIOC_DQBUF", 0).arg[2]
  /\ drv.queued = {}

(***************************************************************************)
(* C19: start() never issues a set-format or set-frame-interval request.   *)
(* On a device without a buffer set, when the calls of its preparation     *)
(* succeed, it reads the current format with one get-format request,       *)
(* records the width and height read back, allocates the buffers the       *)
(* driver grants and so reaches Configured (Streaming when the rest of     *)
(* start() succeeds too).  On a device with a buffer set it issues no      *)
(* get-format and no buffer-request call and keeps the buffer set.         *)
(***************************************************************************)
PrepareReqs == {"VIDIOC_G_FMT", "VIDIOC_REQBUFS", "VIDIOC_QUERYBUF", "mmap", "munmap"}

C19_StartLoadsLazily ==
  [][ (op = "idle" /\ op' = "start")
        => LET t == trace'
               late == IdxAny(t, "VIDIOC_QBUF") \cup IdxAny(t, "VIDIOC_STREAMON")
           IN  /\ Reqs(t) \cap {"VIDIOC_S_FMT", "VIDIOC_S_PARM"} = {}
               /\ (cam.buffer_count = 0 /\ Failing(t) \subseteq late
                     /\ {"VIDEO_CAPTURE", "STREAMING"} \subseteq drv.caps)
                    => /\ state' = IF ret' THEN "Streaming" ELSE "Configured"
                       /\ Cardinality(Idx(t, "VIDIOC_G_FMT", 0)) = 1
                       /\ Cardinality(Idx(t, "VIDIOC_REQBUFS", 0)) = 1
                       /\ \A g \in Idx(t, "VIDIOC_G_FMT", 0) :
                            /\ t[g].arg = drv.fmt
                            /\ cam'.width = t[g].arg[1]
                            /\ cam'.height = t[g].arg[2]
                            /\ \A b \in IdxAny(t, "VIDIOC_REQBUFS") : g < b
                       /\ cam'.buffer_count = Granted(t)
                       /\ cam'.buffer_count > 0
                       /\ Cardinality(mapped') = Granted(t)
                       /\ Cardinality(Idx(t, "mmap", 0)) = Granted(t)
               /\ cam.buffer_count > 0
                    => /\ Reqs(t) \cap PrepareReqs = {}
                       /\ mapped' = mapped
                       /\ cam'.buffers = cam.buffers
                       /\ cam'.buffer_count = cam.buffer_count
                       /\ cam'.width = cam.width
                       /\ cam'.height = cam.height ]_vars

\* a start() has configured a device whose buffer set a failed configure()
\* had torn down: the size recorded is the one that configure() had set
C19_Witness ==
  /\ op = "start" /\ ret
  /\ origin = "start"
  /\ state = "Streaming"
  /\ Idx(trace, "VIDIOC_G_FMT", 0) # {}
  /\ cam.width = 320 /\ cam.height = 240
  /\ cam.buffer_count = MaxGrant

(***************************************************************************)
(* C20: a configure() that gets as far as the frame interval (no failed    *)
(* stream-off, capability check or set-format before it) issues the        *)
(* set-frame-interval request, once and with the interval given, exactly   *)
(* when numerator and denominator are both nonzero, and no configure()     *)
(* issues it otherwise; with width and height left at zero no set-format   *)
(* request is issued; after a successful configure() the width and height  *)
(* recorded are those the get-format request read back after the set       *)
(* requests, whatever was requested.                                       *)
(***************************************************************************)
C20_IntervalIffBothNonzero ==
  op = "configure"
    => LET t    == trace
           both == args.interval.numerator # 0 /\ args.interval.denominator # 0
           parm == IdxAny(t, "VIDIOC_S_PARM")
           sets == IdxAny(t, "VIDIOC_S_FMT") \cup parm
           past == /\ ~Issued(t, "VIDIOC_STREAMOFF", 0 - 1)
                   /\ ~Issued(t, "VIDIOC_QUERYCAP", 0 - 1)
                   /\ ~Issued(t, "VIDIOC_S_FMT", 0 - 1)
                   /\ \A j \in 1 .. Len(sink) : sink[j][1] # "FAIL"
       IN  /\ parm # {} => both
           /\ (both /\ past) => Cardinality(parm) = 1
           /\ \A j \in parm :
                t[j].arg = << args.interval.numerator, args.interval.denominator >>
           /\ (args.width = 0 /\ args.height = 0) => IdxAny(t, "VIDIOC_S_FMT") = {}
           /\ ret => /\ Cardinality(Idx(t, "VIDIOC_G_FMT", 0)) = 1
                     /\ \A g \in Idx(t, "VIDIOC_G_FMT", 0) :
                          /\ \A j \in sets : j < g
                          /\ t[g].arg = drv.fmt
                          /\ cam.width = t[g].arg[1]
                          /\ cam.height = t[g].arg[2]

\* a configure() asking for 640x480 at 1/30 has succeeded on a driver that
\* settled on 320x240: the interval was set, the size recorded is 320x240
C20_Witness ==
  /\ op = "configure" /\ ret
  /\ args.width = 640 /\ args.height = 480
  /\ args.interval.numerator = 1 /\ args.interval.denominator = 30
  /\ Idx(trace, "VIDIOC_S_FMT", 0) # {}
  /\ Idx(trace, "VIDIOC_S_PARM", 0) # {}
  /\ cam.width = 320 /\ cam.height = 240

(***************************************************************************)
(* C13: for every tag of four characters, each any 8-bit value, the        *)
(* identifier encoded from it holds character i in its bits 8i .. 8i+7     *)
(* and nothing else, and decoding the identifier gives the tag back.       *)
(***************************************************************************)
C13_TagRoundTrip ==
  /\ codec.pc \in {"id", "done"} =>
       \A i \in 1 .. 4 : codec.id[i] = codec.name[i]
  /\ codec.pc = "done" => SubSeq(codec.out, 1, 4) = codec.name

(***************************************************************************)
(* C12: the list enumerated from a device holds exactly one descriptor for *)
(* each id of the user-control range the device accepts and none for an    *)
(* id it rejects, in ascending order of id.  A descriptor of menu or       *)
(* integer-menu type has max + 1 menu entries, entry i the device's menu   *)
(* index i, left zero where the device rejects the index; a descriptor of  *)
(* any other type has no menu entries.                                     *)
(***************************************************************************)
C12_EnumerationMatchesDevice ==
  catalog.pc = "done"
    => LET dev  == catalog.dev
           list == catalog.controls.head
           accepted == { c \in Cids : dev[c] # Rejected }
       IN  /\ catalog.controls.length = Len(list)
           /\ Len(list) = Cardinality(accepted)
           /\ \A c \in accepted :
                Cardinality({ i \in 1 .. Len(list) : list[i].id = c }) = 1
           /\ \A i \in 1 .. Len(list) : list[i].id \in accepted
           /\ \A i, j \in 1 .. Len(list) : i < j => list[i].id < list[j].id
           /\ \A i \in 1 .. Len(list) :
                LET d == dev[list[i].id]
                IN  /\ list[i].type = d.type
                    /\ list[i].max = d.maximum
                    /\ IF d.type \in MenuTypes
                         THEN /\ Len(list[i].menus) = d.maximum + 1
                              /\ \A m \in 0 .. d.maximum :
                                   list[i].menus[m + 1] =
                                     IF m \notin d.accept THEN ZeroMenu
                                     ELSE IF d.type = "MENU"
                                       THEN [name |-> << 105, m >>, value |-> 0]
                                       ELSE [name |-> << >>, value |-> m + 1]
                         ELSE list[i].menus = << >>

\* a menu control of MaxMenu + 1 entries whose index 1 the device rejects
\* has been listed together with an integer control of nonzero maximum
C12_Witness ==
  /\ catalog.pc = "done"
  /\ \E i \in 1 .. catalog.controls.length :
       LET c == catalog.controls.head[i]
       IN  /\ c.type = "MENU"
           /\ Len(c.menus) = MaxMenu + 1
           /\ c.menus[1] # ZeroMenu
           /\ c.menus[2] = ZeroMenu
           /\ c.menus[MaxMenu + 1] # ZeroMenu
  /\ \E i \in 1 .. catalog.controls.length :
       LET c == catalog.controls.head[i]
       IN  c.type = "INTEGER" /\ c.max > 0 /\ c.menus = << >>

====
